---- MODULE Spec2Model ----
(***************************************************************************)
(* Model of the trip planner backend (app.py and providers/).              *)
(*                                                                         *)
(* Text that the code transforms (lower(), strip(), ISO date parsing and   *)
(* formatting) is a sequence of one-character strings, so that the         *)
(* transformations are computed and not assumed.  Text the code only       *)
(* copies or compares verbatim (ids, platform tags, slot texts) is an      *)
(* ordinary string.                                                        *)
(*                                                                         *)
(* Real-valued scores are fixed-point integers in millionths (Scale);      *)
(* money is in whole currency units, ratings in hundredths of a point and  *)
(* distances in tenths of a kilometre.                                     *)
(***************************************************************************)
EXTENDS Integers, Sequences, FiniteSets, TLC

VARIABLES env, MOCK_LISTINGS, req, resp, pinned

vars == <<env, MOCK_LISTINGS, req, resp, pinned>>

(***************************************************************************)
(* Bounds of the model.                                                    *)
(***************************************************************************)
MaxSpan == 4

MaxTravelers == 3

(***************************************************************************)
(* Text.                                                                   *)
(***************************************************************************)
UpperChars == <<"A", "B", "C", "D", "E", "F", "G", "H", "I", "J", "K", "L", "M", "N", "O", "P", "Q", "R", "S", "T", "U", "V", "W", "X", "Y", "Z">>

LowerChars == <<"a", "b", "c", "d", "e", "f", "g", "h", "i", "j", "k", "l", "m", "n", "o", "p", "q", "r", "s", "t", "u", "v", "w", "x", "y", "z">>

Whitespace == {" ", "\t", "\n", "\r"}

LowerChar(c) == IF \E i \in 1..Len(UpperChars) : UpperChars[i] = c THEN LowerChars[CHOOSE i \in 1..Len(UpperChars) : UpperChars[i] = c] ELSE c

\* str.lower()
Lower(s) == [i \in 1..Len(s) |-> LowerChar(s[i])]

\* str.strip(): leading and trailing whitespace removed, inner whitespace kept
Strip(s) ==
    LET keep == {i \in 1..Len(s) : s[i] \notin Whitespace}
    IN  IF keep = {} THEN <<>>
        ELSE LET lo == CHOOSE i \in keep : \A j \in keep : i <= j
                 hi == CHOOSE i \in keep : \A j \in keep : j <= i
             IN  SubSeq(s, lo, hi)

\* dict.get(key, default) on a table of <<key, value>> pairs
Get(table, key, default) == IF \E i \in 1..Len(table) : table[i][1] = key THEN table[CHOOSE i \in 1..Len(table) : table[i][1] = key][2] ELSE default

S_relaxed == <<"r", "e", "l", "a", "x", "e", "d">>
S_packed == <<"p", "a", "c", "k", "e", "d">>
S_foodie == <<"f", "o", "o", "d", "i", "e">>
S_culture == <<"c", "u", "l", "t", "u", "r", "e">>
S_nightlife == <<"n", "i", "g", "h", "t", "l", "i", "f", "e">>
S_balanced == <<"b", "a", "l", "a", "n", "c", "e", "d">>
S_shared_room == <<"s", "h", "a", "r", "e", "d", "_", "r", "o", "o", "m">>
S_private_room == <<"p", "r", "i", "v", "a", "t", "e", "_", "r", "o", "o", "m">>
S_entire_place == <<"e", "n", "t", "i", "r", "e", "_", "p", "l", "a", "c", "e">>
S_hotel_room == <<"h", "o", "t", "e", "l", "_", "r", "o", "o", "m">>
S_wifi == <<"w", "i", "f", "i">>
S_heating == <<"h", "e", "a", "t", "i", "n", "g">>
S_parking == <<"p", "a", "r", "k", "i", "n", "g">>
S_kitchen == <<"k", "i", "t", "c", "h", "e", "n">>
S_pool == <<"p", "o", "o", "l">>
S_City_Center == <<"C", "i", "t", "y", " ", "C", "e", "n", "t", "e", "r">>
S_Outskirts == <<"O", "u", "t", "s", "k", "i", "r", "t", "s">>

\* Inputs written by a client: other casings, padding, unknown words.
S_Relaxed_padded == <<" ", "R", "e", "l", "a", "x", "e", "d", " ">>
S_FOODIE == <<"F", "O", "O", "D", "I", "E">>
S_packed_ws == <<"\t", "p", "a", "c", "k", "e", "d", "\n">>
S_luxury == <<"l", "u", "x", "u", "r", "y">>
S_re_laxed == <<"r", "e", " ", "l", "a", "x", "e", "d">>
S_empty == <<>>
S_Private_Room == <<"P", "r", "i", "v", "a", "t", "e", "_", "R", "o", "o", "m">>
S_SHARED_ROOM == <<"S", "H", "A", "R", "E", "D", "_", "R", "O", "O", "M">>
S_WiFi == <<"W", "i", "F", "i">>
S_city_center == <<"c", "i", "t", "y", " ", "c", "e", "n", "t", "e", "r">>

(***************************************************************************)
(* Dates: datetime.date as the code uses it.                               *)
(***************************************************************************)
Digits == <<"0", "1", "2", "3", "4", "5", "6", "7", "8", "9">>

IsDigit(c) == \E i \in 1..10 : Digits[i] = c

DigitVal(c) == (CHOOSE i \in 1..10 : Digits[i] = c) - 1

IsLeap(y) == y % 4 = 0 /\ (y % 100 # 0 \/ y % 400 = 0)

DaysInMonth(y, m) == IF m = 2 THEN (IF IsLeap(y) THEN 29 ELSE 28) ELSE IF m \in {4, 6, 9, 11} THEN 30 ELSE 31

DaysBeforeMonthTable == <<0, 31, 59, 90, 120, 151, 181, 212, 243, 273, 304, 334>>

DaysBeforeMonth(y, m) == DaysBeforeMonthTable[m] + (IF m > 2 /\ IsLeap(y) THEN 1 ELSE 0)

DaysBeforeYear(y) == (y - 1) * 365 + ((y - 1) \div 4) - ((y - 1) \div 100) + ((y - 1) \div 400)

\* date.toordinal()
ToOrdinal(date) == DaysBeforeYear(date.y) + DaysBeforeMonth(date.y, date.m) + date.d

\* date.fromordinal(n), as datetime's _ord2ymd computes it
FromOrdinal(ordinal) ==
    LET n0 == ordinal - 1
        n400 == n0 \div 146097
        r400 == n0 % 146097
        n100 == r400 \div 36524
        r100 == r400 % 36524
        n4 == r100 \div 1461
        r4 == r100 % 1461
        n1 == r4 \div 365
        n == r4 % 365
        year == n400 * 400 + 1 + n100 * 100 + n4 * 4 + n1
    IN  IF n1 = 4 \/ n100 = 4 THEN [y |-> year - 1, m |-> 12, d |-> 31]
        ELSE LET leap == n1 = 3 /\ (n4 # 24 \/ n100 = 3)
                 guess == (n + 50) \div 32
                 before == DaysBeforeMonthTable[guess] + (IF guess > 2 /\ leap THEN 1 ELSE 0)
                 month == IF before > n THEN guess - 1 ELSE guess
                 preceding == IF before > n THEN before - ((IF month = 2 /\ leap THEN 29 ELSE DaysInMonth(year, month))) ELSE before
             IN  [y |-> year, m |-> month, d |-> n - preceding + 1]

\* "YYYY-MM-DD" with a real calendar day
IsIsoDate(s) ==
    /\ Len(s) = 10
    /\ s[5] = "-" /\ s[8] = "-"
    /\ \A i \in {1, 2, 3, 4, 6, 7, 9, 10} : IsDigit(s[i])
    /\ LET y == 1000 * DigitVal(s[1]) + 100 * DigitVal(s[2]) + 10 * DigitVal(s[3]) + DigitVal(s[4])
           m == 10 * DigitVal(s[6]) + DigitVal(s[7])
           d == 10 * DigitVal(s[9]) + DigitVal(s[10])
       IN  y >= 1 /\ m \in 1..12 /\ d >= 1 /\ d <= DaysInMonth(y, m)

\* parse_date: dt.date.fromisoformat(s); only applied where IsIsoDate(s),
\* otherwise fromisoformat raises ValueError
parse_date(s) == [y |-> 1000 * DigitVal(s[1]) + 100 * DigitVal(s[2]) + 10 * DigitVal(s[3]) + DigitVal(s[4]), m |-> 10 * DigitVal(s[6]) + DigitVal(s[7]), d |-> 10 * DigitVal(s[9]) + DigitVal(s[10])]

D1(k) == Digits[(k % 10) + 1]

\* date.isoformat()
isoformat(date) == <<D1(date.y \div 1000), D1(date.y \div 100), D1(date.y \div 10), D1(date.y), "-", D1(date.m \div 10), D1(date.m), "-", D1(date.d \div 10), D1(date.d)>>

Max(a, b) == IF a >= b THEN a ELSE b

Min(a, b) == IF a <= b THEN a ELSE b

\* (b - a).days
DaysBetween(a, b) == ToOrdinal(b) - ToOrdinal(a)

\* nights_between, for parseable dates
nights_between(start, end) == Max(1, DaysBetween(parse_date(start), parse_date(end)))

(***************************************************************************)
(* Itinerary generator.  The slot texts are the source's, with the         *)
(* accented letters written unaccented.                                    *)
(***************************************************************************)
morning_opts == << <<S_relaxed, "Slow breakfast + cedar forest walk">>, <<S_packed, "Early start: viewpoints + town highlights">>, <<S_foodie, "Local cafe + pastry stop">>, <<S_culture, "Azrou day trip idea + cedar forest history">>, <<S_nightlife, "Cafe hopping + evening stroll">>, <<S_balanced, "Town center walk + scenic stop">> >>

afternoon_opts == << <<S_relaxed, "Lakeside chill time + coffee">>, <<S_packed, "Outdoor activity (hike / excursion)">>, <<S_foodie, "Try local tagine + tea time">>, <<S_culture, "Local crafts + heritage walk">>, <<S_nightlife, "Rooftop lunch + downtime">>, <<S_balanced, "Lunch + one planned activity">> >>

evening_opts == << <<S_relaxed, "Sunset viewpoint + easy dinner">>, <<S_packed, "Dinner + night walk loop">>, <<S_foodie, "Dinner + dessert tasting">>, <<S_culture, "Traditional dinner + mint tea">>, <<S_nightlife, "Lounge/cafe + late tea">>, <<S_balanced, "Dinner + optional stroll">> >>

base_pp_table == << <<S_relaxed, 30>>, <<S_packed, 50>>, <<S_foodie, 55>>, <<S_culture, 45>>, <<S_nightlife, 55>>, <<S_balanced, 40>> >>

notes == <<"MVP itinerary is heuristic (no live attraction data yet).", "Add maps + opening hours later for a production version.">>

\* lower() without strip()
NormStyle_no_strip(style) == Lower(style)

\* style = trip.style.lower().strip()
NormStyle(style) == Strip(Lower(style))

\* base_pp = {...}.get(style, 40)
base_pp(style) == Get(base_pp_table, style, 40)

\* the bump grows with the day instead of cycling
est_cost_no_cycle(style, travelers, i) == (base_pp(style) + i * 3) * travelers

\* bump = (i % 3) * 3 ; est = (base_pp + bump) * trip.travelers
est_cost(style, travelers, i) == (base_pp(style) + (i % 3) * 3) * travelers

\* one pass of the loop body, i is the 0-based day index
ItineraryDay(start, style, travelers, i) == [date |-> isoformat(FromOrdinal(ToOrdinal(start) + i)), morning |-> Get(morning_opts, style, Get(morning_opts, S_balanced, "")), afternoon |-> Get(afternoon_opts, style, Get(afternoon_opts, S_balanced, "")), evening |-> Get(evening_opts, style, Get(evening_opts, S_balanced, "")), est_cost |-> est_cost(style, travelers, i)]

RECURSIVE SumCost(_)
SumCost(days) == IF days = <<>> THEN 0 ELSE days[1].est_cost + SumCost(Tail(days))

\* the day count without its floor of 1
n_days_unclamped(start, end) == DaysBetween(start, end)

\* n_days = max(1, (end - start).days)
n_days(start, end) == Max(1, DaysBetween(start, end))

generate_itinerary(trip) ==
    IF ~(IsIsoDate(trip.start_date) /\ IsIsoDate(trip.end_date))
    THEN [status |-> "error", error |-> "ValueError"]
    ELSE LET start == parse_date(trip.start_date)
             end == parse_date(trip.end_date)
             style == NormStyle(trip.style)
             days == [k \in 1..n_days(start, end) |-> ItineraryDay(start, style, trip.travelers, k - 1)]
         IN  [status |-> "ok", destination |-> trip.destination, days |-> days, total_est_cost |-> SumCost(days), notes |-> notes]

(***************************************************************************)
(* Scoring engine.  Scores are integers in millionths; every division      *)
(* rounds down.                                                            *)
(***************************************************************************)
Scale == 1000 * 1000

\* clamp
clamp(x, lo, hi) == Max(lo, Min(hi, x))

\* normalize_rating; rating in hundredths of a point
normalize_rating(platform, rating) == clamp(IF platform = "booking" THEN rating * (Scale \div 1000) ELSE rating * (Scale \div 500), 0, Scale)

\* an overrun penalised at 1.0 instead of 1.4
budget_fit_score_gentle(nightly_price, nightly_budget) ==
    IF nightly_price <= nightly_budget
    THEN clamp(850000 + (150000 * (nightly_budget - nightly_price)) \div nightly_budget, 0, Scale)
    ELSE clamp(Scale - (1000000 * (nightly_price - nightly_budget)) \div nightly_budget, 0, Scale)

\* budget_fit_score, for budgets of at least one currency unit, where
\* max(nightly_budget, 1e-6) is nightly_budget (TripInput admits none below 10)
budget_fit_score(nightly_price, nightly_budget) ==
    IF nightly_price <= nightly_budget
    THEN clamp(850000 + (150000 * (nightly_budget - nightly_price)) \div nightly_budget, 0, Scale)
    ELSE clamp(Scale - (1400000 * (nightly_price - nightly_budget)) \div nightly_budget, 0, Scale)

\* location_score; distance in tenths of a kilometre
location_score(distance) == clamp((Scale * 1000) \div (1000 + 35 * distance), 0, Scale)

\* math.log10 in millionths, rounded down, on the review counts of the model
Log10Table == << <<1, 0>>, <<2, 301029>>, <<9, 954242>>, <<10, 1000000>>, <<49, 1690196>>, <<50, 1698970>>, <<89, 1949390>>, <<100, 2000000>>, <<133, 2123851>>, <<214, 2330413>>, <<780, 2892094>>, <<1000, 3000000>>, <<5000, 3698970>>, <<100000, 5000000>> >>

log10(n) == Log10Table[CHOOSE i \in 1..Len(Log10Table) : Log10Table[i][1] = n][2]

\* quality_score
quality_score(platform, rating, reviews) ==
    LET r == normalize_rating(platform, rating)
        conf == clamp(log10(Max(reviews, 1)) \div 3, 0, Scale)
    IN  clamp((75 * r + 25 * conf) \div 100, 0, Scale)

\* set(x.lower() for x in xs)
LowerSet(xs) == {Lower(xs[i]) : i \in 1..Len(xs)}

\* amenities_score
amenities_score(listing_amenities, must_haves) ==
    IF must_haves = <<>> THEN 700000
    ELSE LET have == LowerSet(listing_amenities)
             need == [i \in 1..Len(must_haves) |-> Lower(must_haves[i])]
             hit == Cardinality({i \in 1..Len(need) : need[i] \in have})
         IN  clamp((hit * Scale) \div Max(Len(need), 1), 0, Scale)

\* only the shared_room dealbreaker honoured
dealbreaker_ok_shared_only(room_type, dealbreakers) == ~(S_shared_room \in {Lower(dealbreakers[i]) : i \in 1..Len(dealbreakers)} /\ room_type = S_shared_room)

\* dealbreaker_ok
dealbreaker_ok(room_type, dealbreakers) ==
    LET db == LowerSet(dealbreakers)
    IN  IF S_shared_room \in db /\ room_type = S_shared_room THEN FALSE
        ELSE IF S_private_room \in db /\ room_type = S_private_room THEN FALSE
        ELSE TRUE

\* area_bonus
area_bonus(area, prefer_areas) == IF prefer_areas = <<>> THEN 0 ELSE IF Lower(area) \in LowerSet(prefer_areas) THEN 120000 ELSE 0

\* the area bonus added without the clamp
score_listing_unclamped(l, trip) ==
    LET b == budget_fit_score(l.nightly_price, trip.nightly_budget)
        q == quality_score(l.platform, l.rating, l.reviews)
        loc == location_score(l.distance_km_to_center)
        a == amenities_score(l.amenities, trip.must_haves)
        base == (40 * b + 25 * q + 20 * loc + 15 * a) \div 100
    IN  [score |-> (base + area_bonus(l.area, trip.prefer_areas)) * 100, parts |-> [budget |-> b, quality |-> q, location |-> loc, amenities |-> a]]

\* score_listing: the composite (in millionths of a point, 0 .. 100 * Scale)
\* and its four parts
score_listing(l, trip) ==
    LET b == budget_fit_score(l.nightly_price, trip.nightly_budget)
        q == quality_score(l.platform, l.rating, l.reviews)
        loc == location_score(l.distance_km_to_center)
        a == amenities_score(l.amenities, trip.must_haves)
        base == (40 * b + 25 * q + 20 * loc + 15 * a) \div 100
        bonus == clamp(base + area_bonus(l.area, trip.prefer_areas), 0, Scale)
    IN  [score |-> bonus * 100, parts |-> [budget |-> b, quality |-> q, location |-> loc, amenities |-> a]]

\* explain_listing: each line of the rationale as its template's tag and the
\* values the template prints
explain_listing(l, trip, parts) ==
    LET budget_line == IF l.nightly_price <= trip.nightly_budget THEN <<"within_budget", l.nightly_price, trip.nightly_budget>> ELSE <<"over_budget", l.nightly_price - trip.nightly_budget>>
        quality_line == IF parts.quality >= 800000 THEN <<"strong_quality", l.rating, l.reviews>> ELSE IF l.reviews < 50 THEN <<"fewer_reviews">> ELSE <<"solid_rating", l.rating, l.reviews>>
        location_line == IF parts.location >= 600000 THEN <<"convenient", l.distance_km_to_center>> ELSE <<"farther", l.distance_km_to_center>>
        missing == SelectSeq(trip.must_haves, LAMBDA m : Lower(m) \notin LowerSet(l.amenities))
        amenity_line == IF missing = <<>> THEN <<"meets_all">> ELSE <<"missing", missing>>
    IN  IF trip.must_haves = <<>> THEN <<budget_line, quality_line, location_line>> ELSE <<budget_line, quality_line, location_line, amenity_line>>

\* round(x / unit) to the nearest integer, ties to even (Python's round)
RoundHalfEven(x, unit) ==
    LET q == x \div unit
        r == x % unit
    IN  IF 2 * r < unit THEN q ELSE IF 2 * r > unit THEN q + 1 ELSE IF q % 2 = 0 THEN q ELSE q + 1

(***************************************************************************)
(* Listing catalog.                                                        *)
(***************************************************************************)
\* providers/mock.py MOCK_LISTINGS (name and url, which no code reads, left out)
MockCatalog == <<
    [id |-> "bkg-ifr-001", platform |-> "booking", area |-> S_City_Center, nightly_price |-> 65, rating |-> 840, reviews |-> 780, amenities |-> <<S_wifi, S_heating, S_parking>>, distance_km_to_center |-> 6, room_type |-> S_hotel_room],
    [id |-> "bkg-ifr-002", platform |-> "booking", area |-> S_Outskirts, nightly_price |-> 92, rating |-> 890, reviews |-> 214, amenities |-> <<S_wifi, S_kitchen, S_heating, S_parking>>, distance_km_to_center |-> 32, room_type |-> S_entire_place],
    [id |-> "bnb-ifr-101", platform |-> "airbnb", area |-> S_City_Center, nightly_price |-> 45, rating |-> 478, reviews |-> 133, amenities |-> <<S_wifi, S_heating>>, distance_km_to_center |-> 9, room_type |-> S_private_room],
    [id |-> "bnb-ifr-102", platform |-> "airbnb", area |-> S_City_Center, nightly_price |-> 72, rating |-> 486, reviews |-> 89, amenities |-> <<S_wifi, S_kitchen, S_heating>>, distance_km_to_center |-> 11, room_type |-> S_entire_place] >>

(***************************************************************************)
(* Provider adapters.  search_stays is a call into an external service:    *)
(* the stub answers [], an implementation on _post answers the listings    *)
(* the service has, or raises (raise_for_status, the 30 s timeout).  The   *)
(* outcome of a call is therefore an input of the request.                 *)
(***************************************************************************)
MaxBooking == 9

MaxAirbnb == 3

BookingIds == <<"bkg-gen-01", "bkg-gen-02", "bkg-gen-03", "bkg-gen-04", "bkg-gen-05", "bkg-gen-06", "bkg-gen-07", "bkg-gen-08", "bkg-gen-09", "bkg-gen-10", "bkg-gen-11", "bkg-gen-12", "bkg-gen-13", "bkg-gen-14", "bkg-gen-15", "bkg-gen-16">>

AirbnbIds == <<"bnb-gen-01", "bnb-gen-02", "bnb-gen-03", "bnb-gen-04", "bnb-gen-05", "bnb-gen-06", "bnb-gen-07", "bnb-gen-08">>

RoomTypeCycle == <<S_hotel_room, S_entire_place, S_shared_room, S_private_room>>

\* The i-th listing of the Booking service: the score-relevant fields repeat
\* with period 3 (equal composite scores at different catalog positions),
\* the room type with period 4.
BookingListing(i) ==
    LET k == ((i - 1) % 3) + 1
    IN  [id |-> BookingIds[i], platform |-> "booking", area |-> <<S_City_Center, S_Outskirts, S_city_center>>[k], nightly_price |-> <<60, 110, 45>>[k], rating |-> <<840, 910, 700>>[k], reviews |-> <<780, 10, 133>>[k], amenities |-> << <<S_wifi, S_heating>>, <<S_WiFi, S_pool, S_kitchen>>, <<>> >>[k], distance_km_to_center |-> <<6, 32, 0>>[k], room_type |-> RoomTypeCycle[((i - 1) % 4) + 1]]

AirbnbListing(i) ==
    LET k == ((i - 1) % 2) + 1
    IN  [id |-> AirbnbIds[i], platform |-> "airbnb", area |-> <<S_Outskirts, S_City_Center>>[k], nightly_price |-> <<75, 60>>[k], rating |-> <<486, 420>>[k], reviews |-> <<89, 0>>[k], amenities |-> << <<S_wifi, S_kitchen>>, <<S_heating>> >>[k], distance_km_to_center |-> <<11, 6>>[k], room_type |-> RoomTypeCycle[((i + 1) % 4) + 1]]

NotCalled == [kind |-> "not_called", items |-> <<>>]

Raised == [kind |-> "raise", items |-> <<>>]

Returned(items) == [kind |-> "list", items |-> items]

\* os.getenv of a variable that is not set
None == "<None>"

\* truth value of os.getenv's result: None and "" are false
Truthy(v) == v # None /\ v # ""

booking_configured(e) == Truthy(e.BOOKING_DEMAND_TOKEN) /\ Truthy(e.BOOKING_AFFILIATE_ID)

airbnb_configured(e) == Truthy(e.AIRBNB_PARTNER_TOKEN)

\* What BookingDemandClient.search_stays can answer when it is called;
\* reached: recommend_stays got as far as fetch_listings (nights_between did
\* not raise)
BookingOutcomes(e, reached, maxb) == IF reached /\ booking_configured(e) THEN {Raised} \cup {Returned([i \in 1..n |-> BookingListing(i)]) : n \in 0..maxb} ELSE {NotCalled}

\* What AirbnbPartnerClient.search_stays can answer when it is called; it is
\* not reached when the Booking call raised
AirbnbOutcomes(e, reached, bo, maxa) == IF reached /\ airbnb_configured(e) /\ bo.kind # "raise" THEN {Raised} \cup {Returned([i \in 1..n |-> AirbnbListing(i)]) : n \in 0..maxa} ELSE {NotCalled}

\* the first non-empty of Booking's results, Airbnb's results and the mock
\* catalog, instead of the concatenation
fetch_listings_first_nonempty(e, mock, bo, ao) ==
    LET booking_listings == IF booking_configured(e) THEN bo.items ELSE <<>>
        airbnb_listings == IF airbnb_configured(e) THEN ao.items ELSE <<>>
        queried == (IF booking_configured(e) THEN {"booking"} ELSE {}) \cup (IF airbnb_configured(e) /\ bo.kind # "raise" THEN {"airbnb"} ELSE {})
    IN  IF (booking_configured(e) /\ bo.kind = "raise") \/ (airbnb_configured(e) /\ ao.kind = "raise")
        THEN [status |-> "error", queried |-> queried, alias |-> FALSE, items |-> <<>>]
        ELSE [status |-> "ok", queried |-> queried, alias |-> booking_listings = <<>> /\ airbnb_listings = <<>>, items |-> IF booking_listings # <<>> THEN booking_listings ELSE IF airbnb_listings # <<>> THEN airbnb_listings ELSE mock]

\* fetch_listings: alias tells that the list returned is the MOCK_LISTINGS
\* object itself; queried are the providers whose search_stays was called
fetch_listings(e, mock, bo, ao) ==
    LET booking_listings == IF booking_configured(e) THEN bo.items ELSE <<>>
        airbnb_listings == IF airbnb_configured(e) THEN ao.items ELSE <<>>
        combined == booking_listings \o airbnb_listings
        queried == (IF booking_configured(e) THEN {"booking"} ELSE {}) \cup (IF airbnb_configured(e) /\ bo.kind # "raise" THEN {"airbnb"} ELSE {})
    IN  IF (booking_configured(e) /\ bo.kind = "raise") \/ (airbnb_configured(e) /\ ao.kind = "raise")
        THEN [status |-> "error", queried |-> queried, alias |-> FALSE, items |-> <<>>]
        ELSE [status |-> "ok", queried |-> queried, alias |-> combined = <<>>, items |-> IF combined # <<>> THEN combined ELSE mock]

(***************************************************************************)
(* Ranking.                                                                *)
(***************************************************************************)
TopN == 10

\* an insertion that puts a listing before the equal scores already placed
RECURSIVE InsertDesc_ties_reversed(_, _)
InsertDesc_ties_reversed(sorted, x) == IF sorted = <<>> THEN <<x>> ELSE IF sorted[1].score > x.score THEN <<sorted[1]>> \o InsertDesc_ties_reversed(Tail(sorted), x) ELSE <<x>> \o sorted

RECURSIVE InsertDesc(_, _)
InsertDesc(sorted, x) == IF sorted = <<>> THEN <<x>> ELSE IF sorted[1].score >= x.score THEN <<sorted[1]>> \o InsertDesc(Tail(sorted), x) ELSE <<x>> \o sorted

\* list.sort(key=score, reverse=True): stable, equal scores keep their order
RECURSIVE SortDesc(_)
SortDesc(s) == IF s = <<>> THEN <<>> ELSE InsertDesc(SortDesc(SubSeq(s, 1, Len(s) - 1)), s[Len(s)])

\* [l for l in fetch_listings(trip) if dealbreaker_ok(...)]; pos is the
\* listing's place in the fetched list, kept for the record
filter_listings(items, trip) == SelectSeq([i \in 1..Len(items) |-> [pos |-> i, listing |-> items[i]]], LAMBDA x : dealbreaker_ok(x.listing.room_type, trip.dealbreakers))

\* the loop that appends (score, l, parts) to scored, then scored.sort
RECURSIVE score_all(_, _)
score_all(listings, trip) ==
    IF listings = <<>> THEN <<>>
    ELSE LET r == score_listing(listings[1].listing, trip)
         IN  <<[score |-> r.score, parts |-> r.parts, listing |-> listings[1].listing, pos |-> listings[1].pos]>> \o score_all(Tail(listings), trip)

rank_listings(listings, trip) == SortDesc(score_all(listings, trip))

\* scored[:10]
top_scored(scored) == SubSeq(scored, 1, Min(TopN, Len(scored)))

\* one StayRecommendation; match_score in tenths of a point
StayRecommendation(x, trip, n) == [listing |-> x.listing, match_score |-> RoundHalfEven(x.score, Scale \div 10), why |-> explain_listing(x.listing, trip, x.parts), est_total_price |-> x.listing.nightly_price * n, pos |-> x.pos]

currency_note == "Set keys in .env to use Booking Demand API / Airbnb partner stub; otherwise mock data."

\* recommend_stays.  Beside the StaysResponse the record keeps what the call
\* worked on: the providers queried, the list fetched (alias: it is the
\* MOCK_LISTINGS object), and the sorted scored list as (place in the
\* fetched list, composite score)
recommend_stays(trip, e, mock, bo, ao) ==
    IF ~(IsIsoDate(trip.start_date) /\ IsIsoDate(trip.end_date))
    THEN [status |-> "error", error |-> "ValueError", queried |-> {}]
    ELSE LET n == nights_between(trip.start_date, trip.end_date)
             fetched == fetch_listings(e, mock, bo, ao)
         IN  IF fetched.status = "error"
             THEN [status |-> "error", error |-> "ProviderError", queried |-> fetched.queried]
             ELSE LET scored == rank_listings(filter_listings(fetched.items, trip), trip)
                      top == top_scored(scored)
                  IN  [status |-> "ok", destination |-> trip.destination, nights |-> n, currency_note |-> currency_note, recommendations |-> [i \in 1..Len(top) |-> StayRecommendation(top[i], trip, n)], queried |-> fetched.queried, fetched |-> fetched.items, alias |-> fetched.alias, scored |-> [i \in 1..Len(scored) |-> [pos |-> scored[i].pos, score |-> scored[i].score]]]

\* the fetched list filtered and sorted in place: when it is MOCK_LISTINGS,
\* the catalog is left in ranked order without the listings filtered out
mock_sorted_in_place(mock, trip, response) == IF response.status = "ok" /\ response.alias THEN [i \in 1..Len(response.recommendations) |-> response.recommendations[i].listing] ELSE mock

\* MOCK_LISTINGS after recommend_stays: the comprehension and scored are new
\* lists, the list fetch_listings returned is only read
mock_after_recommend(mock, trip, response) == mock

(***************************************************************************)
(* Requests.                                                               *)
(***************************************************************************)
D_2024_01_10 == <<"2", "0", "2", "4", "-", "0", "1", "-", "1", "0">>
D_2024_01_12 == <<"2", "0", "2", "4", "-", "0", "1", "-", "1", "2">>
D_2024_02_27 == <<"2", "0", "2", "4", "-", "0", "2", "-", "2", "7">>
D_2024_03_01 == <<"2", "0", "2", "4", "-", "0", "3", "-", "0", "1">>
D_2023_12_30 == <<"2", "0", "2", "3", "-", "1", "2", "-", "3", "0">>
D_2023_02_29 == <<"2", "0", "2", "3", "-", "0", "2", "-", "2", "9">>
D_slashes == <<"1", "0", "/", "0", "1", "/", "2", "0", "2", "4">>

\* TripInput.nightly_budget: Field(..., ge=10)
MinBudget == 10

MaxBudget == 120

MaxPrice == 300

Budgets == {MinBudget, 70, MaxBudget}

\* budget_fit_score called on its own: also a positive budget below the
\* validated minimum
FitBudgets == {1} \cup Budgets

StartDates == {D_2024_01_10, D_2024_02_27, D_2023_12_30}

\* end dates up to MaxSpan days before or after the start, and two strings
\* fromisoformat rejects
EndDates(start) == {isoformat(FromOrdinal(ToOrdinal(parse_date(start)) + k)) : k \in (0 - MaxSpan)..MaxSpan} \cup {D_2023_02_29, D_slashes}

Styles == {S_relaxed, S_packed, S_foodie, S_culture, S_nightlife, S_balanced, S_Relaxed_padded, S_FOODIE, S_packed_ws, S_luxury, S_re_laxed, S_empty}

TripInput(start, end, travelers, budget, style, must_haves, dealbreakers, prefer_areas) == [destination |-> "Ifrane, Morocco", start_date |-> start, end_date |-> end, travelers |-> travelers, nightly_budget |-> budget, style |-> style, must_haves |-> must_haves, dealbreakers |-> dealbreakers, prefer_areas |-> prefer_areas]

PlanTrips == UNION {{TripInput(st, en, tr, 70, sty, <<>>, <<>>, <<>>) : en \in EndDates(st), tr \in 1..MaxTravelers, sty \in Styles} : st \in StartDates}

StayDates == {<<D_2024_02_27, D_2024_03_01>>, <<D_2024_01_12, D_2024_01_10>>, <<D_2024_01_10, D_2023_02_29>>}

MustHaves == {<<>>, <<S_wifi>>, <<S_WiFi, S_wifi, S_pool>>}

StayBudgets == {MinBudget, 70}

Dealbreakers == {<<>>, <<S_shared_room>>, <<S_Private_Room>>, <<S_entire_place>>, <<S_SHARED_ROOM, S_private_room, S_luxury>>}

PreferAreas == {<<>>, <<S_city_center>>}

StaysTrips == {TripInput(d[1], d[2], 2, b, S_balanced, mh, db, pa) : d \in StayDates, b \in StayBudgets, mh \in MustHaves, db \in Dealbreakers, pa \in PreferAreas}

\* The environment of the process: each variable unset, empty or set
Environ(token, affiliate, airbnb) == [BOOKING_DEMAND_TOKEN |-> token, BOOKING_AFFILIATE_ID |-> affiliate, AIRBNB_PARTNER_TOKEN |-> airbnb]

EnvNone == Environ(None, None, None)

EnvBoth == Environ("token", "affiliate", "token")

EnvSet == {EnvNone, EnvBoth, Environ("token", "affiliate", ""), Environ("", "affiliate", "token"), Environ("token", None, None)}

NoReq == [op |-> "none"]

NoResp == [status |-> "none"]

NoPin == [req |-> NoReq, resp |-> NoResp, later |-> 0]

(***************************************************************************)
(* The process: the environment is read at every request, MOCK_LISTINGS is *)
(* the module-level list of providers/mock.py; req and resp are the last   *)
(* request served and its response.  pinned is an earlier request and the  *)
(* response it got, remembered to compare a repetition with.  Requests     *)
(* are served one after the other: the response is sent and the request's  *)
(* objects are dropped (Reply) before the next one is taken.               *)
(***************************************************************************)
Init ==
    /\ env \in EnvSet
    /\ MOCK_LISTINGS = MockCatalog
    /\ req = NoReq
    /\ resp = NoResp
    /\ pinned = NoPin

\* later counts the requests served since the remembered one (up to 2)
Remember(canPin) ==
    IF ~canPin THEN pinned' = pinned
    ELSE IF pinned = NoPin THEN pinned' \in {NoPin, [req |-> req', resp |-> resp', later |-> 0]}
    ELSE pinned' = [pinned EXCEPT !.later = Min(2, @ + 1)]

\* POST /api/plan
api_plan(trips, canPin) ==
    /\ req = NoReq
    /\ \E trip \in trips :
        /\ req' = [op |-> "plan", trip |-> trip, booking |-> NotCalled, airbnb |-> NotCalled]
        /\ resp' = generate_itinerary(trip)
        /\ Remember(canPin)
        /\ UNCHANGED <<env, MOCK_LISTINGS>>

\* POST /api/stays
api_stays(trips, maxb, maxa, canPin) ==
    /\ req = NoReq
    /\ \E trip \in trips :
        \E bo \in BookingOutcomes(env, IsIsoDate(trip.start_date) /\ IsIsoDate(trip.end_date), maxb) :
            \E ao \in AirbnbOutcomes(env, IsIsoDate(trip.start_date) /\ IsIsoDate(trip.end_date), bo, maxa) :
                /\ req' = [op |-> "stays", trip |-> trip, booking |-> bo, airbnb |-> ao]
                /\ resp' = recommend_stays(trip, env, MOCK_LISTINGS, bo, ao)
                /\ MOCK_LISTINGS' = mock_after_recommend(MOCK_LISTINGS, trip, resp')
                /\ Remember(canPin)
                /\ UNCHANGED env

\* the response is sent; nothing of the request is kept
Reply ==
    /\ req # NoReq
    /\ req' = NoReq
    /\ resp' = NoResp
    /\ UNCHANGED <<env, MOCK_LISTINGS, pinned>>

ApiPlan == api_plan(PlanTrips, FALSE)

ApiStays == api_stays(StaysTrips, MaxBooking, MaxAirbnb, FALSE)

Next == ApiPlan \/ ApiStays \/ Reply

Spec == Init /\ [][Next]_vars

(***************************************************************************)
(* The scoring functions on their own, over a wider range of listings     *)
(* than the catalogs hold.                                                 *)
(***************************************************************************)
ScoreListings == [id : {"probe"}, platform : {"booking", "airbnb"}, area : {S_City_Center, S_Outskirts}, nightly_price : {0, 65, 71, 120, MaxPrice}, rating : {0, 478, 1000, 5000}, reviews : {0 - 3, 0, 780, 100000}, amenities : {<<>>, <<S_WiFi, S_heating, S_pool>>}, distance_km_to_center : {0, 6, 1000}, room_type : {S_entire_place}]

ScoreTrips == {TripInput(D_2024_01_10, D_2024_01_12, 2, b, S_balanced, mh, <<>>, pa) : b \in Budgets, mh \in MustHaves, pa \in PreferAreas}

InitScore ==
    /\ env = EnvNone
    /\ MOCK_LISTINGS = MockCatalog
    /\ req = NoReq
    /\ resp = NoResp
    /\ pinned = NoPin

\* score_listing(l, trip)
ScoreListing ==
    /\ req = NoReq
    /\ \E l \in ScoreListings :
        \E trip \in ScoreTrips :
            /\ req' = [op |-> "score", listing |-> l, trip |-> trip]
            /\ resp' = score_listing(l, trip)
            /\ UNCHANGED <<env, MOCK_LISTINGS, pinned>>

\* budget_fit_score(nightly_price, nightly_budget)
BudgetFit ==
    /\ req = NoReq
    /\ \E price \in 0..MaxPrice :
        \E budget \in FitBudgets :
            /\ req' = [op |-> "budget", nightly_price |-> price, nightly_budget |-> budget]
            /\ resp' = budget_fit_score(price, budget)
            /\ UNCHANGED <<env, MOCK_LISTINGS, pinned>>

NextScore == ScoreListing \/ BudgetFit \/ Reply

SpecScore == InitScore /\ [][NextScore]_vars

(***************************************************************************)
(* Sequences of requests with one of them remembered.                      *)
(***************************************************************************)
FrameMaxBooking == 1

FrameMaxAirbnb == 1

FramePlanTrips == {TripInput(D_2024_01_10, en, 2, 70, sty, <<>>, <<>>, <<>>) : en \in {D_2024_01_12, D_2023_02_29}, sty \in {S_relaxed, S_luxury}}

FrameStaysTrips == {TripInput(D_2024_01_10, en, 2, 70, S_balanced, <<>>, db, pa) : en \in {D_2024_01_12, D_2023_02_29}, db \in {<<>>, <<S_private_room>>}, pa \in PreferAreas}

InitFrame ==
    /\ env \in {EnvNone, EnvBoth}
    /\ MOCK_LISTINGS = MockCatalog
    /\ req = NoReq
    /\ resp = NoResp
    /\ pinned = NoPin

FramePlan == api_plan(FramePlanTrips, TRUE)

FrameStays == api_stays(FrameStaysTrips, FrameMaxBooking, FrameMaxAirbnb, TRUE)

NextFrame == FramePlan \/ FrameStays \/ Reply

SpecFrame == InitFrame /\ [][NextFrame]_vars

(***************************************************************************)
(* Vocabulary of the properties.                                           *)
(***************************************************************************)
\* The calendar's day after date, by the calendar's rules
NextDay(date) ==
    IF date.d < DaysInMonth(date.y, date.m) THEN [date EXCEPT !.d = @ + 1]
    ELSE IF date.m < 12 THEN [y |-> date.y, m |-> date.m + 1, d |-> 1]
    ELSE [y |-> date.y + 1, m |-> 1, d |-> 1]

RECURSIVE AddDays(_, _)
AddDays(date, k) == IF k = 0 THEN date ELSE AddDays(NextDay(date), k - 1)

Before(a, b) == a.y < b.y \/ (a.y = b.y /\ (a.m < b.m \/ (a.m = b.m /\ a.d < b.d)))

\* the number of calendar days from a to a later day b
RECURSIVE DaysUntil(_, _)
DaysUntil(a, b) == IF a = b THEN 0 ELSE 1 + DaysUntil(NextDay(a), b)

\* max(1, (end_date - start_date).days)
ExpectedDays(start, end) == IF Before(start, end) THEN DaysUntil(start, end) ELSE 1

ValidDates(trip) == IsIsoDate(trip.start_date) /\ IsIsoDate(trip.end_date)

PlanDone == req.op = "plan" /\ resp.status = "ok"

StaysDone == req.op = "stays" /\ resp.status = "ok"

RecognizedStyles == {S_relaxed, S_packed, S_foodie, S_culture, S_nightlife, S_balanced}

\* style is key in some casing, with whitespace around it
MatchesStyle(style, key) ==
    \E a \in 0..Len(style) :
        /\ a + Len(key) <= Len(style)
        /\ \A i \in 1..Len(style) : (i <= a \/ i > a + Len(key)) => style[i] \in Whitespace
        /\ \A i \in 1..Len(key) : LowerChar(style[a + i]) = key[i]

\* the style whose texts and base cost a request is to get
StyleOf(style) == IF \E k \in RecognizedStyles : MatchesStyle(style, k) THEN CHOOSE k \in RecognizedStyles : MatchesStyle(style, k) ELSE S_balanced

SlotTexts(key) == CASE key = S_relaxed -> <<"Slow breakfast + cedar forest walk", "Lakeside chill time + coffee", "Sunset viewpoint + easy dinner", 30>>
                    [] key = S_packed -> <<"Early start: viewpoints + town highlights", "Outdoor activity (hike / excursion)", "Dinner + night walk loop", 50>>
                    [] key = S_foodie -> <<"Local cafe + pastry stop", "Try local tagine + tea time", "Dinner + dessert tasting", 55>>
                    [] key = S_culture -> <<"Azrou day trip idea + cedar forest history", "Local crafts + heritage walk", "Traditional dinner + mint tea", 45>>
                    [] key = S_nightlife -> <<"Cafe hopping + evening stroll", "Rooftop lunch + downtime", "Lounge/cafe + late tea", 55>>
                    [] OTHER -> <<"Town center walk + scenic stop", "Lunch + one planned activity", "Dinner + optional stroll", 40>>

RECURSIVE CostUpTo(_, _)
CostUpTo(days, n) == IF n = 0 THEN 0 ELSE CostUpTo(days, n - 1) + days[n].est_cost

\* places in the fetched list of the listings that pass the dealbreaker filter
Survivors == {i \in 1..Len(resp.fetched) : dealbreaker_ok(resp.fetched[i].room_type, req.trip.dealbreakers)}

\* x ranks before y: higher composite score, or the same score and earlier
\* in the catalog
RanksBefore(x, y) == x.score > y.score \/ (x.score = y.score /\ x.pos < y.pos)

Recs == resp.recommendations

(***************************************************************************)
(* C1: a listing whose room_type appears in the trip's dealbreakers is     *)
(* never among the recommendations.  As stated, for every room type:       *)
(***************************************************************************)
C1_AnyRoomTypeExcluded == StaysDone => \A i \in 1..Len(Recs) : \A d \in 1..Len(req.trip.dealbreakers) : Recs[i].listing.room_type # req.trip.dealbreakers[d]

\* C1, amended: a listing whose room_type is shared_room or private_room and
\* appears in the trip's dealbreakers is never among the recommendations.
C1_FilterableRoomTypeExcluded == StaysDone => \A i \in 1..Len(Recs) : \A d \in 1..Len(req.trip.dealbreakers) : Recs[i].listing.room_type \in {S_shared_room, S_private_room} => Recs[i].listing.room_type # req.trip.dealbreakers[d]

\* a shared_room listing was fetched, shared_room is a dealbreaker, and
\* recommendations were made
C1_Witness == StaysDone /\ Len(Recs) > 0 /\ (\E d \in 1..Len(req.trip.dealbreakers) : req.trip.dealbreakers[d] = S_shared_room) /\ (\E i \in 1..Len(resp.fetched) : resp.fetched[i].room_type = S_shared_room)

(***************************************************************************)
(* C2: recommend_stays returns min(10, k) recommendations, k the number of *)
(* listings passing the dealbreaker filter; they are the first min(10, k)  *)
(* of the survivors by composite score descending, equal scores in catalog *)
(* order; match_score is non-increasing along the list.                    *)
(***************************************************************************)
C2_TopTenStableOrder ==
    StaysDone =>
        /\ Len(Recs) = Min(10, Cardinality(Survivors))
        /\ Len(resp.scored) = Cardinality(Survivors)
        /\ {resp.scored[j].pos : j \in 1..Len(resp.scored)} = Survivors
        /\ \A j \in 1..Len(resp.scored) : resp.scored[j].score = score_listing(resp.fetched[resp.scored[j].pos], req.trip).score
        /\ \A j \in 1..(Len(resp.scored) - 1) : RanksBefore(resp.scored[j], resp.scored[j + 1])
        /\ \A j \in 1..Len(Recs) : Recs[j].pos = resp.scored[j].pos /\ Recs[j].listing = resp.fetched[Recs[j].pos]
        /\ \A j \in 1..(Len(Recs) - 1) : Recs[j].match_score >= Recs[j + 1].match_score

\* more than 10 survivors, 10 recommended, two of them with equal composite
C2_Witness == StaysDone /\ Cardinality(Survivors) > 10 /\ Len(Recs) = 10 /\ (\E j \in 1..9 : resp.scored[j].score = resp.scored[j + 1].score)

C4_FetchListings ==
    req.op = "stays" =>
        /\ "booking" \in resp.queried => (env.BOOKING_DEMAND_TOKEN # None /\ env.BOOKING_AFFILIATE_ID # None)
        /\ "airbnb" \in resp.queried => env.AIRBNB_PARTNER_TOKEN # None
        /\ "booking" \in resp.queried <=> req.booking.kind # "not_called"
        /\ "airbnb" \in resp.queried <=> req.airbnb.kind # "not_called"
        /\ resp.status = "ok" =>
            LET results == req.booking.items \o req.airbnb.items
            IN  /\ results # <<>> => (resp.fetched = results /\ ~resp.alias)
                /\ results = <<>> => (resp.fetched = MockCatalog /\ Len(resp.fetched) = 4 /\ resp.alias)

\* both providers answered with listings
C4_Witness == StaysDone /\ req.booking.items # <<>> /\ req.airbnb.items # <<>> /\ resp.fetched = req.booking.items \o req.airbnb.items

(***************************************************************************)
(* C5: for valid dates generate_itinerary returns max(1, (end - start)     *)
(* .days) days, day i dated start + i days, also when end <= start; the    *)
(* nights of recommend_stays are the same number, hence >= 1.              *)
(***************************************************************************)
C5_DayCountAndDates ==
    /\ (req.op = "plan" /\ ValidDates(req.trip)) =>
        /\ resp.status = "ok"
        /\ Len(resp.days) = ExpectedDays(parse_date(req.trip.start_date), parse_date(req.trip.end_date))
        /\ \A i \in 1..Len(resp.days) : IsIsoDate(resp.days[i].date) /\ parse_date(resp.days[i].date) = AddDays(parse_date(req.trip.start_date), i - 1)
    /\ StaysDone => (resp.nights = ExpectedDays(parse_date(req.trip.start_date), parse_date(req.trip.end_date)) /\ resp.nights >= 1)

\* an itinerary for an end date before the start date
C5_Witness == PlanDone /\ Before(parse_date(req.trip.end_date), parse_date(req.trip.start_date)) /\ Len(resp.days) = 1 /\ resp.days[1].date = req.trip.start_date

(***************************************************************************)
(* C6: day i (0-based) costs (base_per_person_cost[style] + 3 * (i mod 3)) *)
(* * travelers, the total is the sum of the days; a 2-night relaxed trip   *)
(* for 2 travelers costs 60, 66 and 126 in total.                          *)
(***************************************************************************)
C6_DailyAndTotalCost ==
    PlanDone =>
        /\ \A i \in 1..Len(resp.days) : resp.days[i].est_cost = (SlotTexts(StyleOf(req.trip.style))[4] + 3 * ((i - 1) % 3)) * req.trip.travelers
        /\ resp.total_est_cost = CostUpTo(resp.days, Len(resp.days))
        /\ (req.trip.style = S_relaxed /\ req.trip.travelers = 2 /\ Len(resp.days) = 2) => (resp.days[1].est_cost = 60 /\ resp.days[2].est_cost = 66 /\ resp.total_est_cost = 126)

\* the 2-night relaxed trip for 2, and a trip long enough for the cycle to wrap
C6_Witness == PlanDone /\ req.trip.style = S_relaxed /\ req.trip.travelers = 2 /\ req.trip.start_date = D_2024_01_10 /\ req.trip.end_date = D_2024_01_12 /\ resp.total_est_cost = 126

(***************************************************************************)
(* C7: every day carries the three slot texts of the style that matches    *)
(* after lowercasing and trimming, or the balanced texts when none does;   *)
(* the base cost is that same style's (balanced: 40).                      *)
(***************************************************************************)
C7_StyleTextsAndBaseCost ==
    PlanDone =>
        LET expected == SlotTexts(StyleOf(req.trip.style))
        IN  \A i \in 1..Len(resp.days) :
                /\ resp.days[i].morning = expected[1]
                /\ resp.days[i].afternoon = expected[2]
                /\ resp.days[i].evening = expected[3]
                /\ resp.days[1].est_cost = expected[4] * req.trip.travelers

\* a padded, capitalised style served with the relaxed texts
C7_Witness == PlanDone /\ req.trip.style = S_Relaxed_padded /\ Len(resp.days) > 1 /\ resp.days[2].morning = "Slow breakfast + cedar forest walk" /\ resp.days[1].est_cost = 30 * req.trip.travelers

C9_ScoresInRange ==
    req.op = "score" =>
        /\ \A k \in {"budget", "quality", "location", "amenities"} : resp.parts[k] >= 0 /\ resp.parts[k] <= Scale
        /\ resp.score >= 0 /\ resp.score <= 100 * Scale
        /\ req.trip.must_haves = <<>> => resp.parts.amenities = 700000

\* no reviews, at the center, repeated and differently cased must-haves, in
\* a preferred area: the bonus takes the sum over 1 and the composite is 100
C9_Witness == req.op = "score" /\ req.listing.reviews = 0 /\ req.listing.distance_km_to_center = 0 /\ req.trip.must_haves = <<S_WiFi, S_wifi, S_pool>> /\ req.trip.prefer_areas # <<>> /\ req.listing.area = S_City_Center /\ resp.parts.amenities = Scale /\ resp.score = 100 * Scale

(***************************************************************************)
(* C10: over any sequence of generate_itinerary and recommend_stays calls  *)
(* the mock catalog stays as it was, and a request repeated after other    *)
(* requests gets the response it got before.                               *)
(***************************************************************************)
C10_CatalogUnchangedAndRepeatable == MOCK_LISTINGS = MockCatalog /\ ((pinned.later >= 1 /\ req = pinned.req) => resp = pinned.resp)

\* a stays request served from the mock catalog, repeated with a request in
\* between
C10_Witness == pinned.later = 2 /\ req = pinned.req /\ req.op = "stays" /\ resp.status = "ok" /\ resp.alias /\ resp = pinned.resp /\ Len(resp.recommendations) = 3

====
